---- MODULE Spec2Model ----
(***************************************************************************)
(* Signal_browser: the channel-data extraction layer.                      *)
(*                                                                         *)
(*   SpecMerge  the relational multi-file merge                            *)
(*              (rtilog_reader.py: MultiThreaded_RTI_Reader,               *)
(*               SingleFile_RTI_DataReader, RTILogReader.get_channel_trace)*)
(*   SpecTdm    TDM group labels (tdmlog_reader.py: TDMLogReader)          *)
(*   SpecPlc    the PLC chain read (plclog_reader.py: PlcLogReader)        *)
(***************************************************************************)
EXTENDS Integers, Sequences, FiniteSets, TLC

(***************************************************************************)
(* Bounds of the model.                                                    *)
(***************************************************************************)
MaxFiles == 2       \* files in the merge's file list
MaxRows == 2        \* rows of the queried channel, over all the files
MaxGroups == 3      \* channel groups of a TDM file
MaxDepth == 3       \* nested calls of read_logfile before RecursionError
                    \* (Python's own limit is 1000 frames)
MaxListed == 2      \* paths in the list given to read_logfile
MaxTableRows == 2   \* rows of a table of the relational store at discovery
MaxValues == 3      \* values of a series that is classified

VARIABLES
    \* ---- relational multi-file merge ----
    files,      \* self.filenames with the content of each file: [ok, rows]
    nstarted,   \* how many workers the dispatch loop of run() has started
    wpc,        \* position of each SingleFile_RTI_DataReader.run
    wdf,        \* the local df of each worker
    mutex,      \* self.mutex: 0 when free, else the worker holding it
    df_list,    \* self.df_list, the shared result list
    runPc,      \* position of MultiThreaded_RTI_Reader.run
    df,         \* self.df
    emitted,    \* the payloads Data_Signal has emitted, in order
    dbcon,      \* per worker, its sqlite3 connection: "none", "open", "closed"
    \* ---- TDM reader ----
    tdm_file,   \* the group names of the opened file, in file order
    tdmPc,      \* "get_groups" while get_groups loops, then "listed"
    group,      \* get_groups: how many groups the loop has handled
    group_names,\* get_groups: the dict name -> count
    groups,     \* get_groups: the list of labels
    lookups,    \* the lookups made with a label: [op, pos, group_name, occurrence]
    tdm_times,  \* the raw samples of channel 0 of the groups of the file
    data,       \* get_data: <<>>, or [pos, channel, raised, df] of the call made
    \* ---- PLC reader ----
    disk,       \* the segment files of the directory, by file name
    plcArgs,    \* the arguments of the outer read_logfile call
    stack,      \* the nested read_logfile calls, the innermost last
    plcPc,      \* "running", "done" (returned), "raised" (RecursionError) or "failed"
    plcResult,  \* the frame the outer call returned
    reads,      \* how many times each file has been processed
    openStreams,\* the streams open_file returned that are not closed
    plcList,    \* read_logfile given a list: the list
    listPc,     \* "none" (no list given), "loop", "await" (in a call), "done"
    listPos,    \* how many paths of the list the loop has handled
    listDf,     \* df of the loop over the list
    listNew,    \* the frames the calls of the loop returned, in order
    \* ---- discovery and classification of relational channels ----
    datPc,      \* "idle", then the operation that was called
    table,      \* the rti_json_sample column of the table, row by row
    valid_tables, \* load_dat_groups: the tables that passed the validation
    channels,   \* get_channels_from_rti_json_sample: [raised, types]
    datDf,      \* _dat_is_boolean: the values of df
    item_name,  \* _dat_is_boolean: the channel name
    is_boolean  \* _dat_is_boolean: the value returned

mergeVars == <<files, nstarted, wpc, wdf, mutex, df_list, runPc, df, emitted, dbcon>>
tdmVars == <<tdm_file, tdmPc, group, group_names, groups, lookups, tdm_times, data>>

listVars == <<plcList, listPc, listPos, listDf, listNew>>
plcVars == <<disk, plcArgs, stack, plcPc, plcResult, reads, openStreams, listVars>>

datVars == <<datPc, table, valid_tables, channels, datDf, item_name, is_boolean>>

vars == <<mergeVars, tdmVars, plcVars, datVars>>

\* what the actions of one reader leave alone
notMergeVars == <<tdmVars, plcVars, datVars>>
notTdmVars == <<mergeVars, plcVars, datVars>>
notPlcVars == <<mergeVars, tdmVars, datVars>>
notDatVars == <<mergeVars, tdmVars, plcVars>>

\* the parts of the state a specification does not use stay as they start
IdleMerge ==
    /\ files = <<>> /\ nstarted = 0 /\ wpc = <<>> /\ wdf = <<>> /\ mutex = 0
    /\ df_list = <<>> /\ runPc = "idle" /\ df = <<>> /\ emitted = <<>>
    /\ dbcon = <<>>

IdleDat ==
    /\ datPc = "none" /\ table = <<>> /\ valid_tables = <<>> /\ channels = <<>>
    /\ datDf = <<>> /\ item_name = "" /\ is_boolean = FALSE

IdleTdm ==
    /\ tdm_file = <<>> /\ tdmPc = "idle" /\ group = 0
    /\ group_names = <<>> /\ groups = <<>> /\ lookups = <<>>
    /\ tdm_times = <<>> /\ data = <<>>

IdlePlc ==
    /\ disk = <<>> /\ plcArgs = <<>> /\ stack = <<>> /\ plcPc = "idle"
    /\ plcResult = <<>> /\ reads = <<>> /\ openStreams = 0
    /\ plcList = <<>> /\ listPc = "none" /\ listPos = 0 /\ listDf = <<>>
    /\ listNew = <<>>

(***************************************************************************)
(* Data of the relational store.                                           *)
(***************************************************************************)
NsPerSec == 1000000000

\* pandas' missing instant (None / NaT) in a timestamp column
NaT == -1

\* json_extract(rti_json_sample, '$.timestamp'): <<>> is SQL NULL, <<j>> the
\* JSON object j = {sec, nanosec}
JsonTimestamps == {[sec |-> 1, nanosec |-> 0], [sec |-> 1, nanosec |-> 1]}
JsonOpt == {<<>>} \cup {<<j>> : j \in JsonTimestamps}

\* SampleInfo_reception_timestamp: integer nanoseconds since the Unix epoch
ReceptionNs == {1000000000, 1000000001}

\* a row of the query of get_channel_trace, before the value column is added
RawRow == [ts : JsonOpt, rts : ReceptionNs]

RawRowSeqs == UNION {[1..k -> RawRow] : k \in 0..MaxRows}

\* the channel value of row j of file i: a tag that tells where it came from
ValueOf(i, j) == 10 * i + j

RECURSIVE SumTo(_, _)
SumTo(f, k) == IF k = 0 THEN 0 ELSE f[k] + SumTo(f, k - 1)

\* file i of a file list: it either has the table (ok) and holds the rows
\* first + 1 .. first + len of `all` whose channel value is not NULL, or it
\* lacks the table, and then the query raises
FileOf(all, first, len, ok, i) ==
    [ok |-> ok,
     rows |-> [j \in 1..len |->
                 [ts |-> all[first + j].ts, val |-> ValueOf(i, j), rts |-> all[first + j].rts]]]

(***************************************************************************)
(* TimeConversionUtils.json_to_datetime                                    *)
(***************************************************************************)
json_to_datetime(j) == j.sec * NsPerSec + j.nanosec

(***************************************************************************)
(* RTILogReader.get_channel_trace                                          *)
(***************************************************************************)
IsNaColumn0(rows) == \A k \in 1..Len(rows) : rows[k].ts = <<>>

\* [raised, df]: the query raises when the table is missing; json.loads
\* raises on a NULL timestamp once some row has one; else the frame has the
\* three columns, column 0 converted only when some row has a JSON timestamp
get_channel_trace(file) ==
    IF ~file.ok
    THEN [raised |-> TRUE, df |-> <<>>]
    ELSE IF ~IsNaColumn0(file.rows)
         THEN IF \E k \in 1..Len(file.rows) : file.rows[k].ts = <<>>
              THEN [raised |-> TRUE, df |-> <<>>]
              ELSE [raised |-> FALSE,
                    df |-> [k \in 1..Len(file.rows) |->
                              [ts |-> json_to_datetime(file.rows[k].ts[1]),
                               val |-> file.rows[k].val,
                               rts |-> file.rows[k].rts]]]
         ELSE [raised |-> FALSE,
               df |-> [k \in 1..Len(file.rows) |->
                         [ts |-> NaT, val |-> file.rows[k].val, rts |-> file.rows[k].rts]]]

(***************************************************************************)
(* MultiThreaded_RTI_Reader._dat_select_index                              *)
(***************************************************************************)
\* df[df.columns[0]].isna().all()
isna_all(frame) == \A k \in 1..Len(frame) : frame[k].ts = NaT

\* the index sort_index leaves: an ascending sort of the defined instants,
\* the missing ones last in their order (na_position="last"). Entries at
\* equal instants keep their order, as the insertion sort that numpy's
\* default sort applies to short arrays leaves them.
RECURSIVE InsertSorted(_, _)
InsertSorted(s, x) ==
    IF s = <<>> THEN <<x>>
    ELSE IF s[Len(s)].t <= x.t THEN Append(s, x)
    ELSE Append(InsertSorted(SubSeq(s, 1, Len(s) - 1), x), s[Len(s)])

RECURSIVE StableSort(_)
StableSort(s) ==
    IF s = <<>> THEN <<>>
    ELSE InsertSorted(StableSort(SubSeq(s, 1, Len(s) - 1)), s[Len(s)])

IsDefined(e) == e.t # NaT
IsMissing(e) == e.t = NaT

sort_index(s) == StableSort(SelectSeq(s, IsDefined)) \o SelectSeq(s, IsMissing)

\* drop one timestamp column and set_index the other
set_index(frame) ==
    IF ~isna_all(frame)
    THEN [k \in 1..Len(frame) |-> [t |-> frame[k].ts, v |-> frame[k].val]]
    ELSE [k \in 1..Len(frame) |-> [t |-> frame[k].rts, v |-> frame[k].val]]

\* [raised, s]: squeeze() turns a frame of one row and one column into a
\* scalar, and a scalar has no sort_index
_dat_select_index(frame) ==
    IF Len(frame) = 1
    THEN [raised |-> TRUE, s |-> <<>>]
    ELSE [raised |-> FALSE, s |-> sort_index(set_index(frame))]

\* pd.concat(self.df_list)
RECURSIVE concat(_)
concat(l) == IF l = <<>> THEN <<>> ELSE l[1] \o concat(Tail(l))

(***************************************************************************)
(* MultiThreaded_RTI_Reader: construction                                  *)
(***************************************************************************)
N == Len(files)

InitMerge ==
    /\ \E n \in 1..MaxFiles : \E all \in RawRowSeqs :
       \E lens \in [1..n -> 0..Len(all)] : \E oks \in [1..n -> BOOLEAN] :
          /\ SumTo(lens, n) = Len(all)
          /\ \A i \in 1..n : ~oks[i] => lens[i] = 0
          /\ files = [i \in 1..n |-> FileOf(all, SumTo(lens, i - 1), lens[i], oks[i], i)]
    /\ nstarted = 0
    /\ wpc = [i \in 1..Len(files) |-> "idle"]
    /\ wdf = [i \in 1..Len(files) |-> <<>>]
    /\ mutex = 0
    /\ df_list = <<>>
    /\ runPc = "dispatch"
    /\ df = <<>>
    /\ emitted = <<>>
    /\ dbcon = [i \in 1..Len(files) |-> "none"]
    /\ IdleTdm
    /\ IdlePlc
    /\ IdleDat

(***************************************************************************)
(* MultiThreaded_RTI_Reader.run                                            *)
(***************************************************************************)
\* one iteration of the dispatch loop: threadpool.start(worker)
StartWorker ==
    /\ runPc = "dispatch"
    /\ nstarted < N
    /\ nstarted' = nstarted + 1
    /\ wpc' = [wpc EXCEPT ![nstarted + 1] = "run"]
    /\ UNCHANGED <<files, wdf, mutex, df_list, runPc, df, emitted, dbcon, notMergeVars>>

\* the loop is over: time.sleep(1)
Sleep ==
    /\ runPc = "dispatch"
    /\ nstarted = N
    /\ runPc' = "wait"
    /\ UNCHANGED <<files, nstarted, wpc, wdf, mutex, df_list, df, emitted, dbcon, notMergeVars>>

WorkerFinished(i) == wpc[i] \in {"done", "raised"}

\* self.threadpool.waitForDone() returns once no started worker is running
WaitForDone ==
    /\ runPc = "wait"
    /\ \A i \in 1..N : WorkerFinished(i)
    /\ runPc' = "merge"
    /\ UNCHANGED <<files, nstarted, wpc, wdf, mutex, df_list, df, emitted, dbcon, notMergeVars>>

\* the three cases on len(self.df_list): [raised, s]
MergeOf(l) ==
    IF Len(l) = 0 THEN [raised |-> FALSE, s |-> <<>>]
    ELSE IF Len(l) = 1 THEN _dat_select_index(l[1])
    ELSE _dat_select_index(concat(l))

\* an exception of _dat_select_index ends run() before the emit
MergeFrames ==
    /\ runPc = "merge"
    /\ LET r == MergeOf(df_list)
       IN  IF r.raised
           THEN /\ runPc' = "raised"
                /\ df' = df
           ELSE /\ runPc' = "emit"
                /\ df' = r.s
    /\ UNCHANGED <<files, nstarted, wpc, wdf, mutex, df_list, emitted, dbcon, notMergeVars>>

\* self.signals.Data_Signal.emit((self.item, self.df))
EmitData ==
    /\ runPc = "emit"
    /\ emitted' = Append(emitted, df)
    /\ runPc' = "done"
    /\ UNCHANGED <<files, nstarted, wpc, wdf, mutex, df_list, df, dbcon, notMergeVars>>

(***************************************************************************)
(* SingleFile_RTI_DataReader.run                                           *)
(***************************************************************************)
\* with sqlite3.connect(self.filename) as dbcon: get_channel_trace; leaving
\* the with block commits or rolls back and leaves the connection open; an
\* exception ends the worker
WorkerRead(i) ==
    /\ wpc[i] = "run"
    /\ LET r == get_channel_trace(files[i])
       IN  IF r.raised
           THEN /\ wpc' = [wpc EXCEPT ![i] = "raised"]
                /\ wdf' = wdf
           ELSE /\ wpc' = [wpc EXCEPT ![i] = "lock"]
                /\ wdf' = [wdf EXCEPT ![i] = r.df]
    /\ dbcon' = [dbcon EXCEPT ![i] = "open"]
    /\ UNCHANGED <<files, nstarted, mutex, df_list, runPc, df, emitted, notMergeVars>>

\* as WorkerLock, entering without waiting for the mutex to be free
WorkerLockWithoutWait(i) ==
    /\ wpc[i] = "lock"
    /\ mutex' = i
    /\ wpc' = [wpc EXCEPT ![i] = "append"]
    /\ UNCHANGED <<files, nstarted, wdf, df_list, runPc, df, emitted, dbcon, notMergeVars>>

\* self.mutex.lock()
WorkerLock(i) ==
    /\ wpc[i] = "lock"
    /\ mutex = 0
    /\ mutex' = i
    /\ wpc' = [wpc EXCEPT ![i] = "append"]
    /\ UNCHANGED <<files, nstarted, wdf, df_list, runPc, df, emitted, dbcon, notMergeVars>>

\* self.df_list.append(df)
WorkerAppend(i) ==
    /\ wpc[i] = "append"
    /\ df_list' = Append(df_list, wdf[i])
    /\ wpc' = [wpc EXCEPT ![i] = "unlock"]
    /\ UNCHANGED <<files, nstarted, wdf, mutex, runPc, df, emitted, dbcon, notMergeVars>>

\* self.mutex.unlock()
WorkerUnlock(i) ==
    /\ wpc[i] = "unlock"
    /\ mutex' = 0
    /\ wpc' = [wpc EXCEPT ![i] = "done"]
    /\ UNCHANGED <<files, nstarted, wdf, df_list, runPc, df, emitted, dbcon, notMergeVars>>

\* nothing in run() closes dbcon: the connection is closed when the
\* interpreter frees the object, some time after run() has ended (the frame of
\* a run() that raised is kept by the traceback)
ConnectionFreed(i) ==
    /\ wpc[i] \in {"done", "raised"}
    /\ dbcon[i] = "open"
    /\ dbcon' = [dbcon EXCEPT ![i] = "closed"]
    /\ UNCHANGED <<files, nstarted, wpc, wdf, mutex, df_list, runPc, df, emitted,
                   notMergeVars>>

NextMerge ==
    \/ StartWorker
    \/ Sleep
    \/ WaitForDone
    \/ MergeFrames
    \/ EmitData
    \/ \E i \in 1..N : WorkerRead(i)
    \/ \E i \in 1..N : WorkerLock(i)
    \/ \E i \in 1..N : WorkerAppend(i)
    \/ \E i \in 1..N : WorkerUnlock(i)
    \/ \E i \in 1..N : ConnectionFreed(i)

SpecMerge == InitMerge /\ [][NextMerge]_vars

(***************************************************************************)
(* Properties of the relational multi-file merge                           *)
(***************************************************************************)
ReadOk(i) == ~get_channel_trace(files[i]).raised

RunEnded == runPc \in {"done", "raised"}

StrictlyAscending(s) == \A k \in 1..(Len(s) - 1) : s[k].t < s[k + 1].t

EntriesAt(s, t) == {k \in 1..Len(s) : s[k].t = t}

\* C1: every series the merge emits is strictly ascending by instant, so it
\* holds no two entries with the same instant.
C1_StrictlyAscending ==
    \A e \in 1..Len(emitted) : StrictlyAscending(emitted[e])

\* the first file of the list that holds a row with JSON timestamp ts
FirstFileWith(ts) ==
    CHOOSE a \in 1..N :
        /\ \E j \in 1..Len(files[a].rows) : files[a].rows[j].ts = ts
        /\ \A c \in 1..(a - 1) : \A j \in 1..Len(files[c].rows) : files[c].rows[j].ts # ts

\* C2: when two files that are both read hold a row with the same JSON
\* timestamp, the emitted series has exactly one entry at that instant, and
\* its value is the value of the file that comes first in the file list.
C2_FirstWins ==
    \A e \in 1..Len(emitted) : \A a, b \in 1..N :
    \A ja \in 1..Len(files[a].rows) : \A jb \in 1..Len(files[b].rows) :
        (/\ a < b
         /\ ReadOk(a) /\ ReadOk(b)
         /\ files[a].rows[ja].ts # <<>>
         /\ files[a].rows[ja].ts = files[b].rows[jb].ts
         /\ a = FirstFileWith(files[a].rows[ja].ts))
        => LET t == json_to_datetime(files[a].rows[ja].ts[1])
           IN  /\ Cardinality(EntriesAt(emitted[e], t)) = 1
               /\ \A k \in EntriesAt(emitted[e], t) : emitted[e][k].v \div 10 = a

\* the frames of the files that are read, in the order of the file list
RECURSIVE FramesInListOrder(_)
FramesInListOrder(i) ==
    IF i > N THEN <<>>
    ELSE IF ReadOk(i)
         THEN <<get_channel_trace(files[i]).df>> \o FramesInListOrder(i + 1)
         ELSE FramesInListOrder(i + 1)

\* C3: the emitted series is the one that the file list and the file
\* contents determine (the merge of the frames taken in file-list order),
\* whatever the order in which the workers appended.
C3_CompletionOrderIrrelevant ==
    \A e \in 1..Len(emitted) : emitted[e] = MergeOf(FramesInListOrder(1)).s

\* C4: when the read of one file fails and another file is read and has
\* rows, nothing is emitted.
C4_PartialFailureFailsMerge ==
    (/\ \E i \in 1..N : ~ReadOk(i)
     /\ \E i \in 1..N : ReadOk(i) /\ files[i].rows # <<>>)
    => emitted = <<>>

\* C5: Data_Signal is emitted at most once, only once every worker has
\* finished, no worker is running when the frames are concatenated, and a
\* run that has ended has emitted exactly once.
C5_EmitsExactlyOnceAfterWorkers ==
    /\ Len(emitted) <= 1
    /\ runPc \in {"merge", "emit", "done", "raised"} => \A i \in 1..N : WorkerFinished(i)
    /\ RunEnded => Len(emitted) = 1

\* the rows of the result set the index is selected on
ResultSet == concat(df_list)

\* C6: once the index is selected on a result set, the JSON timestamp is the
\* index of every entry iff some row has a JSON timestamp; when no row has
\* one, no error is raised and every entry is indexed by the reception
\* timestamp of its row.
C6_TimestampSourcePerResultSet ==
    (runPc \in {"emit", "done", "raised"} /\ Len(df_list) > 0)
    => /\ isna_all(ResultSet) => runPc # "raised"
       /\ runPc # "raised" =>
            /\ Len(df) = Len(ResultSet)
            /\ \A k \in 1..Len(ResultSet) :
                  \E m \in 1..Len(df) :
                      df[m] = [t |-> IF isna_all(ResultSet)
                                     THEN ResultSet[k].rts
                                     ELSE ResultSet[k].ts,
                               v |-> ResultSet[k].val]

\* C7: no read of a file that has the table fails, every entry of an
\* emitted series has a defined instant, and every row without a JSON
\* timestamp is an entry at its own reception timestamp.
C7_NullTimestampFallsBackPerRow ==
    /\ \A i \in 1..N : files[i].ok => wpc[i] # "raised"
    /\ \A e \in 1..Len(emitted) :
          /\ \A k \in 1..Len(emitted[e]) : emitted[e][k].t # NaT
          /\ \A i \in 1..N : \A j \in 1..Len(files[i].rows) :
                (files[i].ok /\ files[i].rows[j].ts = <<>>)
                => \E k \in 1..Len(emitted[e]) :
                      emitted[e][k] = [t |-> files[i].rows[j].rts, v |-> files[i].rows[j].val]

(***************************************************************************)
(* TDM reader: strings are sequences of characters                         *)
(***************************************************************************)
DigitChars == <<"0", "1", "2", "3", "4", "5", "6", "7", "8", "9">>

IsDigit(c) == \E d \in 1..10 : DigitChars[d] = c
IsSpace(c) == c = " "

\* str(k) of the f-string, k >= 0
RECURSIVE IntToStr(_)
IntToStr(k) ==
    IF k < 10 THEN <<DigitChars[k + 1]>>
    ELSE IntToStr(k \div 10) \o <<DigitChars[(k % 10) + 1]>>

\* int(digits)
DigitValue(c) == (CHOOSE d \in 1..10 : DigitChars[d] = c) - 1

RECURSIVE StrToInt(_)
StrToInt(digits) ==
    IF digits = <<>> THEN 0
    ELSE 10 * StrToInt(SubSeq(digits, 1, Len(digits) - 1)) + DigitValue(digits[Len(digits)])

\* the group names a file may hold
GroupNameChoices ==
    { <<"G">>, <<"H">>, <<"G", " ", "[", "1", "]">> }

TdmFiles == UNION {[1..k -> GroupNameChoices] : k \in 0..MaxGroups}

\* the raw samples of channel 0 (seconds since the epoch), in file order:
\* none, ascending, descending, and out of order with an instant twice; the
\* channels of a group hold one value for each of them
SampleTimes == {<<>>, <<1, 2>>, <<2, 1>>, <<2, 1, 2>>}

\* the channels a caller asks for: the time channel and a value channel
ChannelIndexes == {0, 1}

\* sample i of channel c of the group at position p of the file
SampleOf(p, c, i) == [group |-> p, channel |-> c, sample |-> i]

\* TimeConversionUtils.epoch_timestamp_to_datetime
epoch_timestamp_to_datetime(seconds) == seconds * NsPerSec

\* tdm_file.channel(group_name, channel, occurrence=occurrence): the position
\* of the group the library resolves, 0 when there is none (it raises)
channel_group_index(group_name, occurrence) ==
    LET named == {p \in 1..Len(tdm_file) : tdm_file[p] = group_name}
        at == {p \in named : Cardinality({q \in named : q < p}) = occurrence}
    IN  IF at = {} THEN 0 ELSE CHOOSE p \in at : TRUE

(***************************************************************************)
(* TDMLogReader.get_groups                                                 *)
(***************************************************************************)
\* a label numbered with the count before the increment
GroupLabelBeforeIncrement(name, seen) ==
    IF name \notin DOMAIN seen
    THEN name
    ELSE name \o <<" ", "[">> \o IntToStr(seen[name]) \o <<"]">>

\* the label appended for `name` given the dict before this iteration
GroupLabel(name, seen) ==
    IF name \notin DOMAIN seen
    THEN name
    ELSE name \o <<" ", "[">> \o IntToStr(seen[name] + 1) \o <<"]">>

\* the dict after this iteration
CountGroup(name, seen) ==
    IF name \notin DOMAIN seen
    THEN (name :> 0) @@ seen
    ELSE [seen EXCEPT ![name] = @ + 1]

InitTdm ==
    /\ tdm_file \in TdmFiles
    /\ tdmPc = "get_groups"
    /\ group = 0
    /\ group_names = <<>>
    /\ groups = <<>>
    /\ lookups = <<>>
    /\ tdm_times \in SampleTimes
    /\ data = <<>>
    /\ IdleMerge
    /\ IdlePlc
    /\ IdleDat

\* one iteration of the loop over the channel groups
GetGroupsStep ==
    /\ tdmPc = "get_groups"
    /\ group < Len(tdm_file)
    /\ LET name == tdm_file[group + 1]
       IN  /\ groups' = Append(groups, GroupLabel(name, group_names))
           /\ group_names' = CountGroup(name, group_names)
    /\ group' = group + 1
    /\ UNCHANGED <<tdm_file, tdmPc, lookups, tdm_times, data, notTdmVars>>

\* return groups
GetGroupsReturn ==
    /\ tdmPc = "get_groups"
    /\ group = Len(tdm_file)
    /\ tdmPc' = "listed"
    /\ UNCHANGED <<tdm_file, group, group_names, groups, lookups, tdm_times, data, notTdmVars>>

(***************************************************************************)
(* TDMLogReader.get_channels, get_channel_description, get_data: the label *)
(* is parsed with re.search(r'(.*?)\s*\[(\d+)\]', group)                   *)
(***************************************************************************)
\* the first index >= i that holds no whitespace (Len(s) + 1 when none)
RECURSIVE SkipSpaces(_, _)
SkipSpaces(s, i) ==
    IF i <= Len(s) /\ IsSpace(s[i]) THEN SkipSpaces(s, i + 1) ELSE i

\* the first index >= i that holds no digit (Len(s) + 1 when none)
RECURSIVE SkipDigits(_, _)
SkipDigits(s, i) ==
    IF i <= Len(s) /\ IsDigit(s[i]) THEN SkipDigits(s, i + 1) ELSE i

\* \s*\[(\d+)\] matches at index i of s; both quantifiers are greedy and
\* giving characters back never helps, since "[" is no space and "]" no digit
TailMatchesAt(s, i) ==
    LET b == SkipSpaces(s, i)
        e == SkipDigits(s, b + 1)
    IN  /\ b <= Len(s) /\ s[b] = "["
        /\ e > b + 1
        /\ e <= Len(s) /\ s[e] = "]"

\* the digits of group 2 of the match at index i
TailDigits(s, i) ==
    LET b == SkipSpaces(s, i)
    IN  SubSeq(s, b + 1, SkipDigits(s, b + 1) - 1)

\* the lazy (.*?) takes the fewest characters: the search starts at the
\* first character and stops at the first index where the tail matches
MatchStarts(s) == {i \in 1..(Len(s) + 1) : TailMatchesAt(s, i)}

\* (group_name, occurrence) of the if match / else
ParseGroupRef(label) ==
    IF MatchStarts(label) # {}
    THEN LET i == CHOOSE m \in MatchStarts(label) : \A o \in MatchStarts(label) : m <= o
         IN  [group_name |-> SubSeq(label, 1, i - 1),
              occurrence |-> StrToInt(TailDigits(label, i))]
    ELSE [group_name |-> label, occurrence |-> 0]

Lookup(op, pos) ==
    LET r == ParseGroupRef(groups[pos])
    IN  [op |-> op, pos |-> pos, group_name |-> r.group_name, occurrence |-> r.occurrence]

\* the caller passes a label of the list get_groups returned; the model
\* keeps the lookups made, at most one of each operation
CanLookup(op) ==
    /\ tdmPc = "listed"
    /\ \A k \in 1..Len(lookups) : lookups[k].op # op

GetChannels ==
    /\ CanLookup("get_channels")
    /\ \E pos \in 1..Len(groups) :
          lookups' = Append(lookups, Lookup("get_channels", pos))
    /\ UNCHANGED <<tdm_file, tdmPc, group, group_names, groups, tdm_times, data, notTdmVars>>

GetChannelDescription ==
    /\ CanLookup("get_channel_description")
    /\ \E pos \in 1..Len(groups) :
          lookups' = Append(lookups, Lookup("get_channel_description", pos))
    /\ UNCHANGED <<tdm_file, tdmPc, group, group_names, groups, tdm_times, data, notTdmVars>>

\* [raised, df] of get_data(file, group, channel)
get_data(label, channel) ==
    LET r == ParseGroupRef(label)
        p == channel_group_index(r.group_name, r.occurrence)
        timestamp == [i \in 1..Len(tdm_times) |->
                        epoch_timestamp_to_datetime(tdm_times[i])]
        series == [i \in 1..Len(tdm_times) |->
                     [t |-> timestamp[i], v |-> SampleOf(p, channel, i)]]
    IN  IF p = 0
        THEN [raised |-> TRUE, df |-> <<>>]
        ELSE [raised |-> FALSE, df |-> sort_index(series)]

GetData ==
    /\ CanLookup("get_data")
    /\ \E pos \in 1..Len(groups) : \E channel \in ChannelIndexes :
          /\ lookups' = Append(lookups, Lookup("get_data", pos))
          /\ data' = [pos |-> pos, channel |-> channel,
                      raised |-> get_data(groups[pos], channel).raised,
                      df |-> get_data(groups[pos], channel).df]
    /\ UNCHANGED <<tdm_file, tdmPc, group, group_names, groups, tdm_times, notTdmVars>>

NextTdm ==
    \/ GetGroupsStep
    \/ GetGroupsReturn
    \/ GetChannels
    \/ GetChannelDescription
    \/ GetData

SpecTdm == InitTdm /\ [][NextTdm]_vars

(***************************************************************************)
(* Properties of the TDM reader                                            *)
(***************************************************************************)
\* how many groups before position i of the file have the name of group i
EarlierOccurrences(i) ==
    Cardinality({j \in 1..(i - 1) : tdm_file[j] = tdm_file[i]})

\* C8: get_groups returns one label per group, in file order: the name
\* itself for the first group of a name, and the name followed by " [k]"
\* for the group that has k >= 1 earlier groups of the same name.
C8_GroupLabels ==
    tdmPc = "listed" =>
        /\ Len(groups) = Len(tdm_file)
        /\ \A i \in 1..Len(tdm_file) :
              groups[i] = IF EarlierOccurrences(i) = 0
                          THEN tdm_file[i]
                          ELSE tdm_file[i] \o <<" ", "[">>
                                   \o IntToStr(EarlierOccurrences(i)) \o <<"]">>

\* get_groups has returned G, G [1], H for the groups G, G, H
C8_Witness ==
    /\ tdmPc = "listed"
    /\ tdm_file = << <<"G">>, <<"G">>, <<"H">> >>
    /\ groups = << <<"G">>, <<"G", " ", "[", "1", "]">>, <<"H">> >>

\* C9: every lookup made with the label of position i parses it into the
\* name of the group at position i and the number of earlier groups of
\* that name.
C9_ParseInvertsLabel ==
    \A k \in 1..Len(lookups) :
        /\ lookups[k].group_name = tdm_file[lookups[k].pos]
        /\ lookups[k].occurrence = EarlierOccurrences(lookups[k].pos)

(***************************************************************************)
(* PLC reader: the segment files                                           *)
(***************************************************************************)
\* the files of the directory; NoFile names no file of it
PlcNames == {"a", "b"}
NoFile == "none"

SecPerDay == 86400

\* TimeConversionUtils.oledatetime_to_datetime: days since 1899-12-30, here
\* as seconds since then
oledatetime_to_datetime(days) == days * SecPerDay

\* a segment: the anchor (OLE days), the offsets of its samples (seconds)
\* and the two file names; its channel holds one value per sample
Segments ==
    [sample_start : {0, 1},
     offsets : {<<>>, <<0>>, <<0, 1>>, <<0, 0>>},
     prev_fileName : PlcNames \cup {NoFile},
     next_fileName : PlcNames \cup {NoFile}]

\* next_path.is_file()
is_file(name) == name \in PlcNames

(***************************************************************************)
(* PlcLogReader.proccess_file                                              *)
(***************************************************************************)
\* as proccess_file, handing back the last_timestamp it was given instead of
\* the last value of its time index
proccess_file_same_timestamp(name, use_timestamp, last_timestamp) ==
    LET seg == disk[name]
        sample_dt == IF use_timestamp
                     THEN [k \in 1..Len(seg.offsets) |-> seg.offsets[k] + last_timestamp]
                     ELSE [k \in 1..Len(seg.offsets) |->
                             seg.offsets[k] + oledatetime_to_datetime(seg.sample_start)]
    IN  [raised |-> seg.offsets = <<>>,
         df |-> [k \in 1..Len(seg.offsets) |-> [t |-> sample_dt[k], src |-> name, k |-> k]],
         prev_fileName |-> seg.prev_fileName,
         next_fileName |-> seg.next_fileName,
         last_timestamp |-> last_timestamp]

\* [raised, df, prev_fileName, next_fileName, last_timestamp]; a row of df is
\* the instant with the sample it came from (file src, sample k); with no
\* sample in the segment sample_dt[-1] raises IndexError
proccess_file(name, use_timestamp, last_timestamp) ==
    LET seg == disk[name]
        sample_dt == IF use_timestamp
                     THEN [k \in 1..Len(seg.offsets) |-> seg.offsets[k] + last_timestamp]
                     ELSE [k \in 1..Len(seg.offsets) |->
                             seg.offsets[k] + oledatetime_to_datetime(seg.sample_start)]
    IN  [raised |-> seg.offsets = <<>>,
         df |-> [k \in 1..Len(seg.offsets) |-> [t |-> sample_dt[k], src |-> name, k |-> k]],
         prev_fileName |-> seg.prev_fileName,
         next_fileName |-> seg.next_fileName,
         last_timestamp |-> IF seg.offsets = <<>> THEN last_timestamp
                            ELSE sample_dt[Len(sample_dt)]]

\* df[~df.index.duplicated(keep='last')]: the later row of an instant is kept
RECURSIVE drop_duplicated_keep_last(_)
drop_duplicated_keep_last(s) ==
    IF s = <<>> THEN <<>>
    ELSE IF \E k \in 2..Len(s) : s[k].t = s[1].t
         THEN drop_duplicated_keep_last(Tail(s))
         ELSE <<s[1]>> \o drop_duplicated_keep_last(Tail(s))

\* df[~df.index.duplicated(keep='first')]
RECURSIVE drop_duplicated(_)
drop_duplicated(s) ==
    IF s = <<>> THEN <<>>
    ELSE LET init == SubSeq(s, 1, Len(s) - 1)
             last == s[Len(s)]
         IN  IF \E k \in 1..Len(init) : init[k].t = last.t
             THEN drop_duplicated(init)
             ELSE Append(drop_duplicated(init), last)

(***************************************************************************)
(* PlcLogReader.read_logfile, given one path                               *)
(***************************************************************************)
NewCall(name, last_timestamp) ==
    [file |-> name, pc |-> "open", df |-> <<>>, new |-> <<>>,
     prev_fileName |-> NoFile, next_fileName |-> NoFile,
     last_timestamp |-> last_timestamp]

InitPlc ==
    /\ disk \in [PlcNames -> Segments]
    /\ plcArgs \in [file : PlcNames, use_timestamp : BOOLEAN, read_series : BOOLEAN,
                    last_timestamp : {0, 5}]
    /\ stack = <<NewCall(plcArgs.file, plcArgs.last_timestamp)>>
    /\ plcPc = "running"
    /\ plcResult = <<>>
    /\ reads = [n \in PlcNames |-> 0]
    /\ openStreams = 0
    /\ plcList = <<>> /\ listPc = "none" /\ listPos = 0 /\ listDf = <<>>
    /\ listNew = <<>>
    /\ IdleMerge
    /\ IdleTdm
    /\ IdleDat

Top == stack[Len(stack)]

SetTop(frame) == [stack EXCEPT ![Len(stack)] = frame]

Running(pc) == plcPc = "running" /\ stack # <<>> /\ Top.pc = pc

\* f = cls.open_file(file)
PlcOpen ==
    /\ Running("open")
    /\ openStreams' = openStreams + 1
    /\ stack' = SetTop([Top EXCEPT !.pc = "process"])
    /\ UNCHANGED <<disk, plcArgs, plcPc, plcResult, reads, listVars, notPlcVars>>

\* df, prev_fileName, next_fileName, last_timestamp = cls.proccess_file(...)
\* an exception of proccess_file unwinds every call; f.close() is not reached
PlcProcess ==
    /\ Running("process")
    /\ LET r == proccess_file(Top.file, plcArgs.use_timestamp, Top.last_timestamp)
       IN  IF r.raised
           THEN /\ stack' = <<>>
                /\ plcPc' = "failed"
           ELSE /\ stack' = SetTop([Top EXCEPT !.pc = "close",
                                               !.df = r.df,
                                               !.prev_fileName = r.prev_fileName,
                                               !.next_fileName = r.next_fileName,
                                               !.last_timestamp = r.last_timestamp])
                /\ plcPc' = plcPc
    /\ reads' = [reads EXCEPT ![Top.file] = @ + 1]
    /\ UNCHANGED <<disk, plcArgs, plcResult, openStreams, listVars, notPlcVars>>

\* f.close()
PlcClose ==
    /\ Running("close")
    /\ openStreams' = openStreams - 1
    /\ stack' = SetTop([Top EXCEPT !.pc = "chain"])
    /\ UNCHANGED <<disk, plcArgs, plcPc, plcResult, reads, listVars, notPlcVars>>

\* the three nested ifs that lead to the recursive call
FollowsNext(frame) ==
    /\ plcArgs.read_series
    /\ is_file(frame.next_fileName)
    /\ frame.prev_fileName # frame.next_fileName

\* new = cls.read_logfile(str(next_path), ...): the call is entered
PlcFollow ==
    /\ Running("chain")
    /\ FollowsNext(Top)
    /\ Len(stack) < MaxDepth
    /\ stack' = Append(SetTop([Top EXCEPT !.pc = "call"]),
                       NewCall(Top.next_fileName, Top.last_timestamp))
    /\ UNCHANGED <<disk, plcArgs, plcPc, plcResult, reads, openStreams, listVars, notPlcVars>>

\* the call is one too deep: RecursionError unwinds every call
PlcRecursionError ==
    /\ Running("chain")
    /\ FollowsNext(Top)
    /\ Len(stack) = MaxDepth
    /\ stack' = <<>>
    /\ plcPc' = "raised"
    /\ UNCHANGED <<disk, plcArgs, plcResult, reads, openStreams, listVars, notPlcVars>>

\* no recursive call: fall through to return df
PlcStop ==
    /\ Running("chain")
    /\ ~FollowsNext(Top)
    /\ stack' = SetTop([Top EXCEPT !.pc = "return"])
    /\ UNCHANGED <<disk, plcArgs, plcPc, plcResult, reads, openStreams, listVars, notPlcVars>>

\* df = pd.concat([df, new]); df = df[~df.index.duplicated(keep='first')]
PlcConcat ==
    /\ Running("concat")
    /\ stack' = SetTop([Top EXCEPT !.pc = "return",
                                   !.df = drop_duplicated(Top.df \o Top.new)])
    /\ UNCHANGED <<disk, plcArgs, plcPc, plcResult, reads, openStreams, listVars, notPlcVars>>

\* return df: to the caller of the outer call, or into `new` of the call
\* that made this one
PlcReturn ==
    /\ Running("return")
    /\ IF Len(stack) = 1
       THEN /\ plcResult' = Top.df
            /\ plcPc' = "done"
            /\ stack' = <<>>
       ELSE /\ stack' = [SubSeq(stack, 1, Len(stack) - 1) EXCEPT
                           ![Len(stack) - 1] = [@ EXCEPT !.pc = "concat", !.new = Top.df]]
            /\ UNCHANGED <<plcResult, plcPc>>
    /\ UNCHANGED <<disk, plcArgs, reads, openStreams, listVars, notPlcVars>>

NextPlc ==
    \/ PlcOpen
    \/ PlcProcess
    \/ PlcClose
    \/ PlcFollow
    \/ PlcRecursionError
    \/ PlcStop
    \/ PlcConcat
    \/ PlcReturn

SpecPlc == InitPlc /\ [][NextPlc]_vars

(***************************************************************************)
(* PlcLogReader.read_logfile, given a list of paths                        *)
(***************************************************************************)
\* the segments of the files of a list: as Segments, none naming a previous file
ListedSegments == {seg \in Segments : seg.prev_fileName = NoFile}

PathLists == UNION {[1..n -> PlcNames] : n \in 0..MaxListed}

\* if isinstance(file, list): df = pd.DataFrame()
InitPlcList ==
    /\ disk \in [PlcNames -> ListedSegments]
    /\ plcArgs \in [file : {NoFile}, use_timestamp : BOOLEAN, read_series : BOOLEAN,
                    last_timestamp : {0}]
    /\ plcList \in PathLists
    /\ listPc = "loop" /\ listPos = 0 /\ listDf = <<>> /\ listNew = <<>>
    /\ stack = <<>>
    /\ plcPc = "list"
    /\ plcResult = <<>>
    /\ reads = [n \in PlcNames |-> 0]
    /\ openStreams = 0
    /\ IdleMerge
    /\ IdleTdm
    /\ IdleDat

\* for f in file: new = cls.read_logfile(f, use_timestamp=..., read_series=...,
\* last_timestamp=last_timestamp): the call is entered
PlcListCall ==
    /\ listPc = "loop"
    /\ listPos < Len(plcList)
    /\ plcArgs' = [plcArgs EXCEPT !.file = plcList[listPos + 1]]
    /\ stack' = <<NewCall(plcList[listPos + 1], plcArgs.last_timestamp)>>
    /\ plcPc' = "running"
    /\ listPc' = "await"
    /\ UNCHANGED <<disk, plcResult, reads, openStreams, plcList, listPos, listDf,
                   listNew, notPlcVars>>

\* df = pd.concat([df, new]); df = df[~df.index.duplicated(keep='first')]
PlcListConcat ==
    /\ listPc = "await"
    /\ plcPc = "done"
    /\ listDf' = drop_duplicated(listDf \o plcResult)
    /\ listNew' = Append(listNew, plcResult)
    /\ listPos' = listPos + 1
    /\ listPc' = "loop"
    /\ plcPc' = "list"
    /\ UNCHANGED <<disk, plcArgs, stack, plcResult, reads, openStreams, plcList,
                   notPlcVars>>

\* the loop has ended: return df
PlcListReturn ==
    /\ listPc = "loop"
    /\ listPos = Len(plcList)
    /\ listPc' = "done"
    /\ UNCHANGED <<disk, plcArgs, stack, plcPc, plcResult, reads, openStreams,
                   plcList, listPos, listDf, listNew, notPlcVars>>

NextPlcList ==
    \/ NextPlc
    \/ PlcListCall
    \/ PlcListConcat
    \/ PlcListReturn

SpecPlcList == InitPlcList /\ [][NextPlcList]_vars

(***************************************************************************)
(* Properties of the PLC chain read                                        *)
(***************************************************************************)
\* the frame of one segment read on its own with the outer arguments
SegmentAlone(name) ==
    proccess_file(name, plcArgs.use_timestamp, plcArgs.last_timestamp).df

\* C10: with chain reading enabled, a segment whose next-filename is its own
\* file name is read once and ends the chain: the read does not fail, and
\* when that segment is the one read_logfile was given, the frame returned
\* holds that segment's data only.
C10_SelfReferenceStops ==
    \A n \in PlcNames :
        (plcArgs.read_series /\ disk[n].next_fileName = n)
        => /\ reads[n] <= 1
           /\ plcPc # "raised"
           /\ (plcPc = "done" /\ plcArgs.file = n) => plcResult = SegmentAlone(n)

(***************************************************************************)
(* Properties of the chain of segments                                     *)
(***************************************************************************)
\* the segment file that is not n
Other(n) == CHOOSE m \in PlcNames : m # n

\* read_logfile was given one path with chain reading enabled
ChainRead == listPc = "none" /\ plcArgs.read_series

\* the segments from the one given on form a chain without a cycle: every
\* next-filename names an existing file other than the segment itself, and
\* the last one's names no existing file
AcyclicChain ==
    \/ ~is_file(disk[plcArgs.file].next_fileName)
    \/ /\ disk[plcArgs.file].next_fileName = Other(plcArgs.file)
       /\ ~is_file(disk[Other(plcArgs.file)].next_fileName)

ChainSegments ==
    IF is_file(disk[plcArgs.file].next_fileName)
    THEN {plcArgs.file, Other(plcArgs.file)}
    ELSE {plcArgs.file}

\* the samples of segment n of the chain, read in its place in the chain
SamplesInChain(n) ==
    IF n = plcArgs.file
    THEN SegmentAlone(n)
    ELSE proccess_file(n, plcArgs.use_timestamp,
             proccess_file(plcArgs.file, plcArgs.use_timestamp,
                           plcArgs.last_timestamp).last_timestamp).df

HasInstant(frame, t) == \E m \in 1..Len(frame) : frame[m].t = t

\* C11: on a chain of segments without a cycle the chain read does not fail,
\* reads every segment of the chain once whatever the segments name as their
\* previous file, and the frame it returns holds the instants of the samples
\* of every segment.
C11_AcyclicChainReadWhole ==
    (ChainRead /\ AcyclicChain)
    => /\ plcPc # "raised"
       /\ plcPc = "done"
          => \A n \in ChainSegments :
                /\ reads[n] = 1
                /\ \A k \in 1..Len(SamplesInChain(n)) :
                      HasInstant(plcResult, SamplesInChain(n)[k].t)

NoDuplicateInstants(frame) ==
    \A i, j \in 1..Len(frame) : i < j => frame[i].t # frame[j].t

\* a row whose instant is in the first segment is the first segment's row
FirstSegmentWins(frame) ==
    \A m \in 1..Len(frame) :
        HasInstant(SegmentAlone(plcArgs.file), frame[m].t)
        => frame[m].src = plcArgs.file

SegmentsRead == reads["a"] + reads["b"]

AscendingInstants(frame) ==
    \A i, j \in 1..Len(frame) : i < j => frame[i].t <= frame[j].t

\* the first row with instant t among the frames the loop concatenated
FirstRowAt(t) ==
    LET p == CHOOSE q \in 1..Len(listNew) :
                 /\ HasInstant(listNew[q], t)
                 /\ \A o \in 1..(q - 1) : ~HasInstant(listNew[o], t)
        k == CHOOSE m \in 1..Len(listNew[p]) :
                 /\ listNew[p][m].t = t
                 /\ \A o \in 1..(m - 1) : listNew[p][o].t # t
    IN  listNew[p][k]

EarlierFileWins(frame) ==
    \A m \in 1..Len(frame) : frame[m] = FirstRowAt(frame[m].t)

\* C13: the frame returned for a list of files has no two rows with the same
\* instant, keeps for an instant found in several files the row of the
\* earlier file of the list, and is sorted ascending by instant whatever the
\* order of the files in the list.
C13_ListDedupedAndSorted ==
    listPc = "done"
    => /\ NoDuplicateInstants(listDf)
       /\ EarlierFileWins(listDf)
       /\ AscendingInstants(listDf)

(***************************************************************************)
(* Properties of the time index of the segments                            *)
(***************************************************************************)
\* the call at depth d has read its segment and not yet concatenated
HoldsOwnSegment(d) == stack[d].pc \in {"close", "chain", "call"}

\* what the offsets of the segment read at depth d are added to
TimeBase(d) ==
    IF plcArgs.use_timestamp
    THEN IF d = 1
         THEN plcArgs.last_timestamp
         ELSE stack[d - 1].df[Len(stack[d - 1].df)].t
    ELSE oledatetime_to_datetime(disk[stack[d].file].sample_start)

\* C20: with timestamp continuation on, the time index of the first segment
\* is its offsets plus the last_timestamp the caller gave and the time index
\* of every later segment is its offsets plus the last value of the time
\* index of the segment read just before it; with continuation off the time
\* index of every segment is its own anchor plus its offsets.
C20_TimeIndexOfSegments ==
    \A d \in 1..Len(stack) :
        HoldsOwnSegment(d)
        => /\ Len(stack[d].df) = Len(disk[stack[d].file].offsets)
           /\ \A k \in 1..Len(stack[d].df) :
                 stack[d].df[k].t = disk[stack[d].file].offsets[k] + TimeBase(d)

\* a later segment of a chain read with continuation, continued from a last
\* value that is neither the caller's last_timestamp nor the segment's anchor
C20_Witness ==
    /\ plcArgs.use_timestamp
    /\ Len(stack) >= 2
    /\ HoldsOwnSegment(Len(stack))
    /\ TimeBase(Len(stack)) # plcArgs.last_timestamp
    /\ TimeBase(Len(stack)) # oledatetime_to_datetime(disk[Top.file].sample_start)
    /\ Top.df[1].t = TimeBase(Len(stack)) + disk[Top.file].offsets[1]

(***************************************************************************)
(* Properties of the workers of the merge                                  *)
(***************************************************************************)
\* worker i is between lock() and unlock()
InAppend(i) == wpc[i] \in {"append", "unlock"}

\* a step of run() of worker i
WorkerStep(i) == wpc[i] \notin {"idle", "done", "raised"} /\ wpc'[i] # wpc[i]

\* every append is made with the mutex held by the worker that appends, and
\* no two workers are inside the append at once
AppendUnderMutex ==
    /\ \A i \in 1..N : InAppend(i) => mutex = i
    /\ \A i, j \in 1..N : (InAppend(i) /\ InAppend(j)) => i = j

\* a step of a worker changes the result list only inside the append, and
\* beside its own frame and its own connection nothing else but the mutex
OnlyResultListShared ==
    \A i \in 1..N :
        WorkerStep(i)
        => /\ df_list' # df_list => (wpc[i] = "append" /\ mutex = i)
           /\ \A j \in 1..N : j # i => (wdf'[j] = wdf[j] /\ wpc'[j] = wpc[j]
                                        /\ dbcon'[j] = dbcon[j])
           /\ UNCHANGED <<files, nstarted, runPc, df, emitted>>

\* C18: every append to the shared result list is made while the mutex of the
\* merge is held, so no two workers are inside the append at the same time,
\* and the result list is the only mutable state two workers both access.
C18_AppendsSerialized == []AppendUnderMutex /\ [][OnlyResultListShared]_vars

\* one worker is inside the append while another waits for the mutex
C18_Witness ==
    \E i, j \in 1..N : i # j /\ wpc[i] = "append" /\ mutex = i /\ wpc[j] = "lock"

\* C19: every worker opens a connection of its own, closes it before its
\* task ends whether the query succeeds or fails, and no connection the
\* merge opened is still open when the merge emits.
C19_ConnectionsClosed ==
    /\ \A i \in 1..N : wpc[i] \in {"done", "raised"} => dbcon[i] = "closed"
    /\ emitted # <<>> => \A i \in 1..N : dbcon[i] # "open"

\* the series pairs every sample of the group at position p with its own
\* instant, and holds nothing else
PairsOfGroup(frame, p, c) ==
    /\ Len(frame) = Len(tdm_times)
    /\ \A i \in 1..Len(tdm_times) :
          \E m \in 1..Len(frame) :
              frame[m] = [t |-> epoch_timestamp_to_datetime(tdm_times[i]),
                          v |-> SampleOf(p, c, i)]

AscendingByInstant(frame) ==
    \A i, j \in 1..Len(frame) : i < j => frame[i].t <= frame[j].t

\* C17: for every group and channel index get_data returns the series of the
\* pairs (instant of sample i of the group's channel 0, value of sample i of
\* the channel asked for), one for every sample i, in ascending order of
\* instant whatever the order of the samples in the file.
C17_GetDataPairsSorted ==
    data # <<>>
    => /\ ~data.raised
       /\ PairsOfGroup(data.df, data.pos, data.channel)
       /\ AscendingByInstant(data.df)

(***************************************************************************)
(* The rti_json_sample column at discovery                                 *)
(***************************************************************************)
\* a JSON value as written in the sample: what it is and its text
JsonValues ==
    {[json |-> "literal", text |-> "true"],
     [json |-> "string", text |-> "true"],
     [json |-> "string", text |-> "FALSE"],
     [json |-> "string", text |-> "hello"],
     [json |-> "real", text |-> "3.5"]}

JsonKeys == {"a", "b"}

\* the JSON objects a sample may hold, key -> value
JsonObjects == UNION {[ks -> JsonValues] : ks \in SUBSET JsonKeys}

\* a row holds <<>> (SQL NULL) or <<object>>
SampleChoices == {<<>>} \cup {<<o>> : o \in JsonObjects}

Tables == UNION {[1..n -> SampleChoices] : n \in 0..MaxTableRows}

\* cur.fetchone(): the first row of the result as a tuple of its columns,
\* <<>> standing for None when the query has no row
fetchone(rows) == IF rows = <<>> THEN <<>> ELSE <<rows[1]>>

(***************************************************************************)
(* RTILogReader._validate_rti_json_sample                                  *)
(***************************************************************************)
\* json_extract(rti_json_sample, '$') of every row: NULL stays NULL
json_extract_root(rows) == rows

\* True when fetchone() gave a tuple, whatever its one column holds
_validate_rti_json_sample(rows) ==
    LET channel == fetchone(json_extract_root(rows))
    IN  channel # <<>> /\ Len(channel) > 0

(***************************************************************************)
(* RTILogReader.get_channels_from_rti_json_sample                          *)
(***************************************************************************)
\* type(value) of what json.loads makes of a JSON value
type(value) ==
    CASE value.json = "literal" /\ value.text \in {"true", "false"} -> "bool"
      [] value.json = "literal" /\ value.text = "null" -> "NoneType"
      [] value.json = "string" -> "str"
      [] value.json = "integer" -> "int"
      [] value.json = "real" -> "float"

\* [raised, types]: json.loads(None) raises; no row gives the empty mapping
get_channels_from_rti_json_sample(rows) ==
    LET row == fetchone(rows)
    IN  IF row = <<>>
        THEN [raised |-> FALSE, types |-> <<>>]
        ELSE IF row[1] = <<>>
        THEN [raised |-> TRUE, types |-> <<>>]
        ELSE [raised |-> FALSE,
              types |-> [key \in DOMAIN row[1][1] |-> type(row[1][1][key])]]

(***************************************************************************)
(* _dat_is_boolean                                                         *)
(***************************************************************************)
\* a value of a series: a number, or a text that reads as one
DatValues == [kind : {"number", "text"}, n : 0..2]

Frames == UNION {[1..n -> DatValues] : n \in 0..MaxValues}

ItemNames == {"novosControl", "speed"}

\* df.isin(numbers).all()
isin_all(frame, numbers) ==
    \A k \in 1..Len(frame) : frame[k].kind = "number" /\ frame[k].n \in numbers

\* as _dat_is_boolean, without the branch on the channel name
_dat_is_boolean_by_values(frame, name) ==
    IF isin_all(frame, {0, 1}) THEN TRUE
    ELSE IF isin_all(frame, {1}) THEN TRUE
    ELSE IF isin_all(frame, {0}) THEN TRUE
    ELSE FALSE

_dat_is_boolean(frame, name) ==
    IF isin_all(frame, {0, 1}) THEN TRUE
    ELSE IF isin_all(frame, {1}) THEN TRUE
    ELSE IF isin_all(frame, {0}) THEN TRUE
    ELSE IF name = "novosControl" THEN TRUE
    ELSE FALSE

(***************************************************************************)
(* The calls                                                               *)
(***************************************************************************)
InitDat ==
    /\ datPc = "idle"
    /\ table = <<>> /\ valid_tables = <<>> /\ channels = <<>>
    /\ datDf = <<>> /\ item_name = "" /\ is_boolean = FALSE
    /\ IdleMerge
    /\ IdleTdm
    /\ IdlePlc

\* load_dat_groups over one file with one table that has the column
LoadDatGroups ==
    /\ datPc = "idle"
    /\ \E rows \in Tables :
          /\ table' = rows
          /\ valid_tables' = IF _validate_rti_json_sample(rows)
                             THEN <<"table">> ELSE <<>>
    /\ datPc' = "load_dat_groups"
    /\ UNCHANGED <<channels, datDf, item_name, is_boolean, notDatVars>>

GetChannelsFromSample ==
    /\ datPc = "idle"
    /\ \E rows \in Tables :
          /\ table' = rows
          /\ channels' = get_channels_from_rti_json_sample(rows)
    /\ datPc' = "get_channels"
    /\ UNCHANGED <<valid_tables, datDf, item_name, is_boolean, notDatVars>>

DatIsBoolean ==
    /\ datPc = "idle"
    /\ \E frame \in Frames : \E name \in ItemNames :
          /\ datDf' = frame
          /\ item_name' = name
          /\ is_boolean' = _dat_is_boolean(frame, name)
    /\ datPc' = "is_boolean"
    /\ UNCHANGED <<table, valid_tables, channels, notDatVars>>

NextDat ==
    \/ LoadDatGroups
    \/ GetChannelsFromSample
    \/ DatIsBoolean

SpecDat == InitDat /\ [][NextDat]_vars

(***************************************************************************)
(* Properties of discovery and classification                              *)
(***************************************************************************)
\* the root extraction of a row is neither NULL nor empty
HoldsJson(sample) == sample # <<>>

\* C14: the validation of a table is true exactly if at least one row gives
\* a non-null, non-empty JSON root; a table whose rows all hold NULL is not
\* among the discovered groups.
C14_ValidIffSomeRowHoldsJson ==
    datPc = "load_dat_groups"
    => (valid_tables = <<"table">>
        <=> \E k \in 1..Len(table) : HoldsJson(table[k]))

\* str(value) of what json.loads makes of a JSON value
StringForm(value) ==
    IF value.json = "literal"
    THEN CASE value.text = "true" -> "True"
           [] value.text = "false" -> "False"
           [] value.text = "null" -> "None"
    ELSE value.text

\* the texts that equal "true" or "false" when case is ignored
ReadsAsBoolean(text) ==
    text \in {"true", "True", "TRUE", "false", "False", "FALSE"}

\* C15: every key of the sampled row is typed: boolean if the string form of
\* its value is "true" or "false" whatever the case, else the native type of
\* the JSON value; a table with no row gives the empty mapping.
C15_TypesOfSampledRow ==
    datPc = "get_channels"
    => /\ table = <<>> => channels = [raised |-> FALSE, types |-> <<>>]
       /\ (table # <<>> /\ table[1] # <<>>)
          => /\ ~channels.raised
             /\ DOMAIN channels.types = DOMAIN table[1][1]
             /\ \A key \in DOMAIN table[1][1] :
                   channels.types[key] =
                       IF ReadsAsBoolean(StringForm(table[1][1][key]))
                       THEN "bool"
                       ELSE type(table[1][1][key])

IsZeroOrOne(value) == value.kind = "number" /\ (value.n = 0 \/ value.n = 1)

\* C16: a series is classified boolean exactly if every value of it is 0 or
\* 1, or the channel is named novosControl.
C16_BooleanIffZeroOneOrNovos ==
    datPc = "is_boolean"
    => (is_boolean <=> \/ \A k \in 1..Len(datDf) : IsZeroOrOne(datDf[k])
                       \/ item_name = "novosControl")

\* a series of zeros and ones under another name was classified boolean
C16_Witness ==
    /\ datPc = "is_boolean"
    /\ item_name # "novosControl"
    /\ \E k \in 1..Len(datDf) : datDf[k] = [kind |-> "number", n |-> 0]
    /\ \E k \in 1..Len(datDf) : datDf[k] = [kind |-> "number", n |-> 1]
    /\ \A k \in 1..Len(datDf) : IsZeroOrOne(datDf[k])
    /\ is_boolean

(***************************************************************************)
(* Properties of termination and of the streams                            *)
(***************************************************************************)
\* C21: a chain read terminates for every set of segment files, also when
\* the next-filenames form a cycle of two or more files: the calls do not
\* nest without end and no segment file is read more than once.
C21_ChainReadTerminates ==
    ChainRead
    => /\ plcPc # "raised"
       /\ \A n \in PlcNames : reads[n] <= 1

\* C22: in a chain read at most one segment stream is open at any time, and
\* every stream read_logfile opened is closed when read_logfile has ended,
\* with a frame or with a failure while parsing a segment.
C22_StreamsClosed ==
    ChainRead
    => /\ openStreams <= 1
       /\ plcPc \in {"done", "raised", "failed"} => openStreams = 0

====
